---------------------------- MODULE Spec2Model ----------------------------
(***************************************************************************)
(* Model of ridgeplot's colour-interpolation subsystem                     *)
(* (src/src/ridgeplot/_colormodes.py).                                     *)
(*                                                                         *)
(* A densities grid is a sequence of rows, a row a sequence of traces, a   *)
(* trace a sequence of <<x, y>> points.  Python's numbers are modelled as  *)
(* exact rationals <<n, d>> in lowest terms with d > 0, so that equality   *)
(* of two numbers is equality of their representations.  A Python          *)
(* exception ends the call: every function that can raise returns a        *)
(* record whose status names the exception.                                *)
(***************************************************************************)
EXTENDS Integers, Sequences, FiniteSets

\* Total number of (x, y) points of a grid, over all rows and traces.
MaxPoints == 3
\* The x coordinates and the y values (mass weights, non-negative) that
\* the points of a grid are drawn from.
XValues == {0, 1}
YValues == {0, 1}

-----------------------------------------------------------------------------
(* Exact arithmetic standing for Python's numeric operators.                *)

Abs(n) == IF n < 0 THEN -n ELSE n

RECURSIVE Gcd(_, _)
Gcd(a, b) == IF b = 0 THEN a ELSE Gcd(b, a % b)

\* The rational n/d (d # 0) in lowest terms with a positive denominator.
Rat(n, d) ==
    LET g == Gcd(Abs(n), Abs(d))
        s == IF d < 0 THEN -1 ELSE 1
    IN  <<(s * n) \div g, (s * d) \div g>>

FromInt(n) == <<n, 1>>
Zero == FromInt(0)
One == FromInt(1)

RatAdd(a, b) == Rat(a[1] * b[2] + b[1] * a[2], a[2] * b[2])
RatSub(a, b) == Rat(a[1] * b[2] - b[1] * a[2], a[2] * b[2])
RatMul(a, b) == Rat(a[1] * b[1], a[2] * b[2])
\* a / b for b # 0; Python raises ZeroDivisionError when b = 0, which the
\* callers test before dividing.
RatDiv(a, b) == Rat(a[1] * b[2], a[2] * b[1])
RatLe(a, b) == a[1] * b[2] <= b[1] * a[2]
RatLt(a, b) == a[1] * b[2] < b[1] * a[2]
IsZero(a) == a[1] = 0

RECURSIVE SumSeq(_)
SumSeq(s) == IF s = <<>> THEN 0 ELSE Head(s) + SumSeq(Tail(s))

RECURSIVE MinRat(_)
MinRat(s) ==
    IF Len(s) = 1 THEN s[1]
    ELSE LET m == MinRat(Tail(s)) IN IF RatLe(s[1], m) THEN s[1] ELSE m

RECURSIVE MaxRat(_)
MaxRat(s) ==
    IF Len(s) = 1 THEN s[1]
    ELSE LET m == MaxRat(Tail(s)) IN IF RatLe(m, s[1]) THEN s[1] ELSE m

RECURSIVE Flatten(_)
Flatten(ss) == IF ss = <<>> THEN <<>> ELSE Head(ss) \o Flatten(Tail(ss))

-----------------------------------------------------------------------------
(* The inputs: valid densities grids.                                       *)

Points == XValues \X YValues

Gaps == {"same", "trace", "row"}

\* The grid holding the first i points of ps, where gap[k] tells whether
\* point k+1 continues the trace of point k, opens a new trace in the same
\* row, or opens a new row.
RECURSIVE BuildGrid(_, _, _)
BuildGrid(ps, gap, i) ==
    IF i = 1 THEN << << <<ps[1]>> >> >>
    ELSE LET g == BuildGrid(ps, gap, i - 1)
             nr == Len(g)
             row == g[nr]
             nt == Len(row)
         IN  CASE gap[i - 1] = "same" ->
                    [g EXCEPT ![nr] = [row EXCEPT ![nt] = Append(row[nt], ps[i])]]
               [] gap[i - 1] = "trace" ->
                    [g EXCEPT ![nr] = Append(row, <<ps[i]>>)]
               [] gap[i - 1] = "row" ->
                    Append(g, << <<ps[i]>> >>)

\* Every valid grid (at least one row, every row at least one trace, every
\* trace at least one point) with at most MaxPoints points.
Grids ==
    UNION { { BuildGrid(ps, gap, n) :
                ps \in [1..n -> Points], gap \in [1..(n - 1) -> Gaps] } :
            n \in 1..MaxPoints }


-----------------------------------------------------------------------------
(* ridgeplot._utils, a module this one imports: modelled from the           *)
(* specification's description of it.                                      *)

\* All x coordinates of the grid, in row-major order.
AllX(densities) ==
    Flatten([i \in 1..Len(densities) |->
        Flatten([j \in 1..Len(densities[i]) |->
            [k \in 1..Len(densities[i][j]) |-> FromInt(densities[i][j][k][1])]])])

\* get_xy_extrema: the minimum and maximum of all x coordinates across all
\* traces of all rows (the y extrema are dropped by the caller).
get_xy_extrema(densities) ==
    [x_min |-> MinRat(AllX(densities)), x_max |-> MaxRat(AllX(densities))]

\* normalise_min_max: (val - min_) / (max_ - min_); with max_ = min_ the
\* division fails.
normalise_min_max(val, min_, max_) ==
    IF IsZero(RatSub(max_, min_))
    THEN [status |-> "ZeroDivisionError", val |-> Zero]
    ELSE [status |-> "ok", val |-> RatDiv(RatSub(val, min_), RatSub(max_, min_))]

-----------------------------------------------------------------------------
(* InterpolationContext                                                     *)

from_densities(densities) ==
    LET ex == get_xy_extrema(densities)
    IN  [densities |-> densities,
         n_rows    |-> Len(densities),
         n_traces  |-> SumSeq([i \in 1..Len(densities) |-> Len(densities[i])]),
         x_min     |-> ex.x_min,
         x_max     |-> ex.x_max]

-----------------------------------------------------------------------------
(* The five interpolation strategies.  Each returns                         *)
(* [status, ps]: ps is the grid of interpolants when status = "ok".         *)

Raised(exc) == [status |-> exc, ps |-> <<>>]
Returned(ps) == [status |-> "ok", ps |-> ps]

\* Number of traces in the rows before row i: the value of the running
\* counter ith_trace when the loop enters row i.
RECURSIVE TracesBefore(_, _)
TracesBefore(densities, i) ==
    IF i = 1 THEN 0 ELSE TracesBefore(densities, i - 1) + Len(densities[i - 1])

\* _mul with the operands added instead of multiplied.
_mul_add(a, b) ==
    [k \in 1..(IF Len(a) < Len(b) THEN Len(a) ELSE Len(b)) |-> a[k] + b[k]]

\* Element-wise product of two tuples (zip stops at the shorter one).
_mul(a, b) ==
    [k \in 1..(IF Len(a) < Len(b) THEN Len(a) ELSE Len(b)) |-> a[k] * b[k]]

\* x, y = zip(*trace)
UnzipX(trace) == [k \in 1..Len(trace) |-> trace[k][1]]
UnzipY(trace) == [k \in 1..Len(trace) |-> trace[k][2]]

\* sum(_mul(x, y)) / sum(y)
WeightedMean(trace) ==
    LET x == UnzipX(trace)
        y == UnzipY(trace)
    IN  IF SumSeq(y) = 0
        THEN [status |-> "ZeroDivisionError", val |-> Zero]
        ELSE [status |-> "ok", val |-> Rat(SumSeq(_mul(x, y)), SumSeq(y))]

_interpolate_row_index(ctx) ==
    LET d == ctx.densities
    IN  IF Len(d) > 0 /\ ctx.n_rows - 1 = 0
        THEN Raised("ZeroDivisionError")
        ELSE Returned([i \in 1..Len(d) |->
                 [j \in 1..Len(d[i]) |->
                     Rat((ctx.n_rows - 1) - (i - 1), ctx.n_rows - 1)]])

\* _interpolate_trace_index with the counter restarting in every row.
_interpolate_trace_index_restart(ctx) ==
    LET d == ctx.densities
    IN  IF (\E i \in 1..Len(d) : Len(d[i]) > 0) /\ ctx.n_traces - 1 = 0
        THEN Raised("ZeroDivisionError")
        ELSE Returned([i \in 1..Len(d) |->
                 [j \in 1..Len(d[i]) |->
                     Rat((ctx.n_traces - 1) - (j - 1), ctx.n_traces - 1)]])

_interpolate_trace_index(ctx) ==
    LET d == ctx.densities
    IN  IF (\E i \in 1..Len(d) : Len(d[i]) > 0) /\ ctx.n_traces - 1 = 0
        THEN Raised("ZeroDivisionError")
        ELSE Returned([i \in 1..Len(d) |->
                 [j \in 1..Len(d[i]) |->
                     Rat((ctx.n_traces - 1) - (TracesBefore(d, i) + (j - 1)),
                         ctx.n_traces - 1)]])

_interpolate_trace_index_row_wise(ctx) ==
    LET d == ctx.densities
    IN  IF \E i \in 1..Len(d) : Len(d[i]) = 1
        THEN Raised("ZeroDivisionError")
        ELSE Returned([i \in 1..Len(d) |->
                 [j \in 1..Len(d[i]) |->
                     Rat((Len(d[i]) - 1) - (j - 1), Len(d[i]) - 1)]])

_interpolate_mean_minmax(ctx) ==
    LET d == ctx.densities
        p(i, j) == LET m == WeightedMean(d[i][j])
                   IN  IF m.status # "ok" THEN m
                       ELSE normalise_min_max(m.val, ctx.x_min, ctx.x_max)
    IN  IF \E i \in 1..Len(d) : \E j \in 1..Len(d[i]) : p(i, j).status # "ok"
        THEN Raised("ZeroDivisionError")
        ELSE Returned([i \in 1..Len(d) |-> [j \in 1..Len(d[i]) |-> p(i, j).val]])

\* The second pass of mean-means over the grid of means, normalising
\* against lo and hi.
NormaliseMeans(means, lo, hi) ==
    LET p(i, j) == normalise_min_max(means[i][j], lo, hi)
    IN  IF \E i \in 1..Len(means) : \E j \in 1..Len(means[i]) : p(i, j).status # "ok"
        THEN Raised("ZeroDivisionError")
        ELSE Returned([i \in 1..Len(means) |->
                 [j \in 1..Len(means[i]) |-> p(i, j).val]])

\* The first pass of mean-means: the grid of weighted means.
MeansOf(d) ==
    IF \E i \in 1..Len(d) : \E j \in 1..Len(d[i]) : WeightedMean(d[i][j]).status # "ok"
    THEN Raised("ZeroDivisionError")
    ELSE Returned([i \in 1..Len(d) |-> [j \in 1..Len(d[i]) |-> WeightedMean(d[i][j]).val]])

\* _interpolate_mean_means normalising against the context's x extrema.
_interpolate_mean_means_ctx_extrema(ctx) ==
    LET first == MeansOf(ctx.densities)
    IN  IF first.status # "ok" THEN first
        ELSE NormaliseMeans(first.ps, ctx.x_min, ctx.x_max)

\* _interpolate_mean_means taking the extrema of the first row's means only.
_interpolate_mean_means_first_row(ctx) ==
    LET first == MeansOf(ctx.densities)
    IN  IF first.status # "ok" THEN first
        ELSE NormaliseMeans(first.ps, MinRat(first.ps[1]), MaxRat(first.ps[1]))

_interpolate_mean_means(ctx) ==
    LET first == MeansOf(ctx.densities)
    IN  IF first.status # "ok" THEN first
        ELSE LET means == first.ps
                 min_mean == MinRat([i \in 1..Len(means) |-> MinRat(means[i])])
                 max_mean == MaxRat([i \in 1..Len(means) |-> MaxRat(means[i])])
             IN  NormaliseMeans(means, min_mean, max_mean)

-----------------------------------------------------------------------------
(* ridgeplot._colors, a module this one imports: modelled from the          *)
(* specification's description of it.  A colour is the tuple of its         *)
(* channels, <<r, g, b>> or, with an alpha channel, <<r, g, b, a>>.  A      *)
(* colour scale is given as a flat sequence of colours.                     *)

\* normalise_colorscale: an empty sequence is an invalid input; a single
\* colour is duplicated at positions 0 and 1; otherwise colour i (from 0)
\* gets position i / (len - 1).
normalise_colorscale(colorscale) ==
    CASE Len(colorscale) = 0 -> [status |-> "ValueError", scale |-> <<>>]
      [] Len(colorscale) = 1 ->
            [status |-> "ok",
             scale |-> << <<Zero, colorscale[1]>>, <<One, colorscale[1]>> >>]
      [] OTHER ->
            [status |-> "ok",
             scale |-> [k \in 1..Len(colorscale) |->
                          <<Rat(k - 1, Len(colorscale) - 1), colorscale[k]>>]]

\* interpolate_color: p outside [0, 1] is an invalid input; otherwise each
\* channel is interpolated linearly between the stops bracketing p.
interpolate_color(scale, p) ==
    IF RatLt(p, Zero) \/ RatLt(One, p)
    THEN [status |-> "ValueError", color |-> <<>>]
    ELSE LET hi == CHOOSE k \in 2..Len(scale) :
                       /\ RatLe(p, scale[k][1])
                       /\ \A m \in 2..(k - 1) : RatLt(scale[m][1], p)
             lo == hi - 1
             width == RatSub(scale[hi][1], scale[lo][1])
             t == IF IsZero(width) THEN Zero
                  ELSE RatDiv(RatSub(p, scale[lo][1]), width)
             c_lo == scale[lo][2]
             c_hi == scale[hi][2]
         IN  [status |-> "ok",
              color |-> [c \in 1..3 |->
                           RatAdd(FromInt(c_lo[c]),
                                  RatMul(t, FromInt(c_hi[c] - c_lo[c])))]]

\* apply_alpha: the colour with its alpha channel set to alpha.
apply_alpha(color, alpha) == <<color[1], color[2], color[3], alpha>>

-----------------------------------------------------------------------------
(* Orchestration                                                            *)

Colormode ==
    {"row-index", "trace-index", "trace-index-row-wise", "mean-minmax", "mean-means"}

\* COLORMODE_MAPS[colormode](ctx=ctx), for colormode in COLORMODE_MAPS.
COLORMODE_MAPS(colormode, ctx) ==
    CASE colormode = "row-index" -> _interpolate_row_index(ctx)
      [] colormode = "trace-index" -> _interpolate_trace_index(ctx)
      [] colormode = "trace-index-row-wise" -> _interpolate_trace_index_row_wise(ctx)
      [] colormode = "mean-minmax" -> _interpolate_mean_minmax(ctx)
      [] colormode = "mean-means" -> _interpolate_mean_means(ctx)

\* The closure _get_color of compute_trace_colors; coloralpha is {} for
\* None and {a} for the number a.
_get_color(scale, coloralpha, p) ==
    LET c == interpolate_color(scale, p)
    IN  IF c.status # "ok" \/ coloralpha = {} THEN c
        ELSE [status |-> "ok",
              color |-> apply_alpha(c.color, CHOOSE a \in coloralpha : TRUE)]

\* What a call leaves behind: how it ended, the strategy it invoked (or
\* "none"), the interpolants the strategy returned and the colours returned
\* to the caller (<<>> when none were).
Outcome(status, invoked, interpolants, colors) ==
    [status |-> status, invoked |-> invoked,
     interpolants |-> interpolants, colors |-> colors]

\* The tail of compute_trace_colors, from the strategy's call on.
DispatchAndColor(scale, colormode, coloralpha, ctx) ==
    LET r == COLORMODE_MAPS(colormode, ctx)
        col(i, j) == _get_color(scale, coloralpha, r.ps[i][j])
    IN  IF r.status # "ok" THEN Outcome(r.status, colormode, <<>>, <<>>)
        ELSE IF \E i \in 1..Len(r.ps) : \E j \in 1..Len(r.ps[i]) :
                    col(i, j).status # "ok"
             THEN Outcome("ValueError", colormode, r.ps, <<>>)
             ELSE Outcome("ok", colormode, r.ps,
                          [i \in 1..Len(r.ps) |->
                              [j \in 1..Len(r.ps[i]) |-> col(i, j).color]])

\* compute_trace_colors falling back to row-index for an unknown colormode.
compute_trace_colors_default_mode(colorscale, colormode, coloralpha, interpolation_ctx) ==
    LET ns == normalise_colorscale(colorscale)
    IN  IF ns.status # "ok" THEN Outcome(ns.status, "none", <<>>, <<>>)
        ELSE DispatchAndColor(ns.scale,
                 IF colormode \in Colormode THEN colormode ELSE "row-index",
                 coloralpha, interpolation_ctx)

compute_trace_colors(colorscale, colormode, coloralpha, interpolation_ctx) ==
    LET ns == normalise_colorscale(colorscale)
    IN  IF ns.status # "ok" THEN Outcome(ns.status, "none", <<>>, <<>>)
        ELSE IF colormode \notin Colormode
             THEN Outcome("ValueError", "none", <<>>, <<>>)
             ELSE DispatchAndColor(ns.scale, colormode, coloralpha, interpolation_ctx)

-----------------------------------------------------------------------------
(* The state machine: a caller builds the context of a grid, calls          *)
(* compute_trace_colors, then reorders the grid (rows, and traces within    *)
(* rows), rebuilds the context and calls again with the same arguments.     *)

VARIABLES
    ctx,      \* the InterpolationContext of the current grid
    args,     \* the arguments of the latest call
    outcome,  \* what the latest call left behind
    prev,     \* the outcome of the call made before the grid was reordered
    perm,     \* the reordering applied to the grid
    pc        \* "ready", "done", "reordered", "redone"

vars == <<ctx, args, outcome, prev, perm, pc>>

\* Colour scales handed to compute_trace_colors: an empty (invalid) one and
\* a two-colour one.
ColorScales == { <<>>, << <<68, 1, 84>>, <<253, 231, 37>> >> }

\* coloralpha: None ({}) or 1/2.
Alphas == { {}, {Rat(1, 2)} }

\* colormode: the five recognised names and one that is not.
ColormodeInputs == Colormode \cup {"unknown"}

NoOutcome == Outcome("none", "none", <<>>, <<>>)
NoArgs == [colorscale |-> <<>>, colormode |-> "none", coloralpha |-> {}]
NoPerm == [rows |-> <<>>, traces |-> <<>>]

PermsOf(n) == { f \in [1..n -> 1..n] : \A a, b \in 1..n : f[a] = f[b] => a = b }

\* The reorderings of grid d: new row i is old row rows[i], and its trace j
\* is that row's trace traces[i][j].
Reorderings(d) ==
    { [rows |-> r, traces |-> t] :
        r \in PermsOf(Len(d)),
        t \in { u \in [1..Len(d) -> UNION { PermsOf(Len(d[i])) : i \in 1..Len(d) }] :
                  \A i \in 1..Len(d) : DOMAIN u[i] = 1..Len(d[i]) } }

IsIdentity(q) ==
    /\ \A i \in 1..Len(q.rows) : q.rows[i] = i
    /\ \A i \in 1..Len(q.traces) : \A j \in 1..Len(q.traces[i]) : q.traces[i][j] = j

Reordered(d, q) ==
    [i \in 1..Len(d) |->
        [j \in 1..Len(d[q.rows[i]]) |-> d[q.rows[i]][q.traces[q.rows[i]][j]]]]

Init ==
    /\ \E d \in Grids : ctx = from_densities(d)
    /\ args = NoArgs
    /\ outcome = NoOutcome
    /\ prev = NoOutcome
    /\ perm = NoPerm
    /\ pc = "ready"

\* compute_trace_colors(colorscale, colormode, coloralpha, ctx)
Call ==
    /\ pc = "ready"
    /\ \E colorscale \in ColorScales, colormode \in ColormodeInputs, coloralpha \in Alphas :
          /\ args' = [colorscale |-> colorscale, colormode |-> colormode,
                      coloralpha |-> coloralpha]
          /\ outcome' = compute_trace_colors(colorscale, colormode, coloralpha, ctx)
    /\ pc' = "done"
    /\ UNCHANGED <<ctx, prev, perm>>

\* After a call that reached a data-driven strategy, the caller reorders
\* the grid and builds the context of the new grid.
Reorder ==
    /\ pc = "done"
    /\ outcome.invoked \in {"mean-minmax", "mean-means"}
    /\ \E q \in Reorderings(ctx.densities) :
          /\ ~IsIdentity(q)
          /\ perm' = q
          /\ ctx' = from_densities(Reordered(ctx.densities, q))
    /\ prev' = outcome
    /\ pc' = "reordered"
    /\ UNCHANGED <<args, outcome>>

\* compute_trace_colors again, with the arguments of the first call.
CallAgain ==
    /\ pc = "reordered"
    /\ outcome' = compute_trace_colors(args.colorscale, args.colormode,
                                       args.coloralpha, ctx)
    /\ pc' = "redone"
    /\ UNCHANGED <<ctx, args, prev, perm>>

Next == Call \/ Reorder \/ CallAgain

Spec == Init /\ [][Next]_vars

-----------------------------------------------------------------------------
(* Vocabulary of the properties.                                            *)

\* The latest outcome is that of a call on the current context.
Called == pc \in {"done", "redone"}

\* The call was given a colour scale that normalises.
ScaleValid == Len(args.colorscale) > 0

Grid == ctx.densities

\* The <<row, trace>> indices of grid g.
Cells(g) == UNION { { <<i, j>> : j \in 1..Len(g[i]) } : i \in 1..Len(g) }

\* Row-major order of two cells.
Before(a, b) == a[1] < b[1] \/ (a[1] = b[1] /\ a[2] < b[2])

\* The row-major index, from 0, of cell c of grid g.
GlobalIndex(g, c) == Cardinality({ b \in Cells(g) : Before(b, c) })

SameShape(a, g) ==
    /\ Len(a) = Len(g)
    /\ \A i \in 1..Len(g) : Len(a[i]) = Len(g[i])

RECURSIVE Mass(_)
Mass(trace) == IF trace = <<>> THEN 0 ELSE Head(trace)[2] + Mass(Tail(trace))

RECURSIVE Moment(_)
Moment(trace) ==
    IF trace = <<>> THEN 0 ELSE Head(trace)[1] * Head(trace)[2] + Moment(Tail(trace))

\* The weighted mean x of a trace of positive mass.
MeanX(trace) == Rat(Moment(trace), Mass(trace))

AllPositiveMass(g) == \A c \in Cells(g) : Mass(g[c[1]][c[2]]) > 0
SomeZeroMass(g) == \E c \in Cells(g) : Mass(g[c[1]][c[2]]) = 0

\* Some mean is the least and some the greatest of the grid's means.
IsLeastMean(g, c) ==
    \A b \in Cells(g) : RatLe(MeanX(g[c[1]][c[2]]), MeanX(g[b[1]][b[2]]))
IsGreatestMean(g, c) ==
    \A b \in Cells(g) : RatLe(MeanX(g[b[1]][b[2]]), MeanX(g[c[1]][c[2]]))
MeansDiffer(g) ==
    \E b, c \in Cells(g) : MeanX(g[b[1]][b[2]]) # MeanX(g[c[1]][c[2]])

InUnitInterval(p) == RatLe(Zero, p) /\ RatLe(p, One)

-----------------------------------------------------------------------------
(* The claims.                                                              *)

\* C1: for every valid grid, each of the five colormodes and a valid colour
\* scale, compute_trace_colors returns a colours grid with as many rows as
\* the grid and, in every row, as many entries as the grid's row.
C1_ShapeOfEveryValidGrid ==
    (Called /\ ScaleValid /\ args.colormode \in Colormode)
        => (outcome.status = "ok" /\ SameShape(outcome.colors, Grid))

\* C2: for a grid of a single row holding a single trace, every one of the
\* five colormodes yields a defined 1x1 colours grid and no error.
C2_SingleTraceGridDefined ==
    (Called /\ ScaleValid /\ args.colormode \in Colormode
        /\ Len(Grid) = 1 /\ Len(Grid[1]) = 1)
        => (outcome.status = "ok"
            /\ Len(outcome.colors) = 1 /\ Len(outcome.colors[1]) = 1)

\* C3: a colormode that is not one of the five names ends the call with an
\* invalid-input error whatever the colour scale, the alpha and the
\* context: no strategy is invoked and no colours are returned.
C3_UnknownColormodeRejected ==
    (pc # "ready" /\ args.colormode \notin Colormode)
        => /\ outcome.status = "ValueError"
           /\ outcome.invoked = "none"
           /\ outcome.interpolants = <<>>
           /\ outcome.colors = <<>>

C3_Witness ==
    /\ pc = "done"
    /\ args.colormode = "unknown"
    /\ ScaleValid
    /\ args.coloralpha # {}
    /\ Len(Grid) = 2
    /\ outcome.status = "ValueError"

\* C4: with colormode trace-index and at least two traces, the trace of
\* row-major index g gets ((n_traces-1) - g)/(n_traces-1): positions
\* decrease strictly in row-major order from 1 (first) to 0 (last).
C4_TraceIndexPositions ==
    (Called /\ ScaleValid /\ args.colormode = "trace-index" /\ ctx.n_traces >= 2)
        => /\ outcome.status = "ok"
           /\ SameShape(outcome.interpolants, Grid)
           /\ \A c \in Cells(Grid) :
                 outcome.interpolants[c[1]][c[2]] =
                     Rat((ctx.n_traces - 1) - GlobalIndex(Grid, c), ctx.n_traces - 1)
           /\ \A b, c \in Cells(Grid) :
                 Before(b, c) => RatLt(outcome.interpolants[c[1]][c[2]],
                                       outcome.interpolants[b[1]][b[2]])
           /\ outcome.interpolants[1][1] = One
           /\ outcome.interpolants[Len(Grid)][Len(Grid[Len(Grid)])] = Zero

C4_Witness ==
    /\ pc = "done"
    /\ args.colormode = "trace-index"
    /\ Len(Grid) = 3
    /\ outcome.status = "ok"
    /\ outcome.interpolants = << <<One>>, <<Rat(1, 2)>>, <<Zero>> >>

\* C5: with colormode row-index, every valid grid (a single row included)
\* gets a defined colours grid in which the traces of one row share one
\* colour.
C5_RowIndexOneColorPerRow ==
    (Called /\ ScaleValid /\ args.colormode = "row-index")
        => /\ outcome.status = "ok"
           /\ SameShape(outcome.colors, Grid)
           /\ \A b, c \in Cells(Grid) :
                 b[1] = c[1] => outcome.colors[b[1]][b[2]] = outcome.colors[c[1]][c[2]]

\* C6: with colormode trace-index-row-wise, the last trace of every row
\* gets position 0, whatever the row's length (one included) and whatever
\* the other rows.
C6_RowWiseLastTraceZero ==
    (Called /\ ScaleValid /\ args.colormode = "trace-index-row-wise")
        => /\ outcome.status = "ok"
           /\ SameShape(outcome.interpolants, Grid)
           /\ \A i \in 1..Len(Grid) : outcome.interpolants[i][Len(Grid[i])] = Zero

\* C7: for mean-minmax and mean-means, reordering the rows of the grid and
\* the traces within rows reorders the output the same way: the call ends
\* as it did before, every trace keeps its position and its colour, and
\* each position occurs as often as before.
C7_MeanModesFollowReordering ==
    (pc = "redone" /\ args.colormode \in {"mean-minmax", "mean-means"})
        => /\ outcome.status = prev.status
           /\ outcome.status = "ok" =>
                /\ SameShape(outcome.interpolants, Grid)
                /\ \A c \in Cells(Grid) :
                      LET i == perm.rows[c[1]]
                          j == perm.traces[i][c[2]]
                      IN  /\ outcome.interpolants[c[1]][c[2]] = prev.interpolants[i][j]
                          /\ outcome.colors[c[1]][c[2]] = prev.colors[i][j]
                /\ \A c \in Cells(Grid) :
                      LET v == outcome.interpolants[c[1]][c[2]]
                      IN  Cardinality({ b \in Cells(Grid) :
                                          outcome.interpolants[b[1]][b[2]] = v })
                          = Cardinality({ b \in Cells(prev.interpolants) :
                                          prev.interpolants[b[1]][b[2]] = v })

C7_Witness ==
    /\ pc = "redone"
    /\ args.colormode = "mean-means"
    /\ outcome.status = "ok"
    /\ perm.rows = <<2, 1>>
    /\ Len(Grid[2]) = 2
    /\ perm.traces[1] = <<2, 1>>
    /\ outcome.interpolants # prev.interpolants

\* C8: a grid with a trace whose y values sum to 0 is handled by mean-minmax
\* and mean-means: a defined colours grid is returned and no error raised.
C8_ZeroMassHandled ==
    (Called /\ ScaleValid /\ args.colormode \in {"mean-minmax", "mean-means"}
        /\ SomeZeroMass(Grid))
        => (outcome.status = "ok" /\ SameShape(outcome.colors, Grid))

C10_MeanMeansAgainstMeans ==
    (Called /\ ScaleValid /\ AllPositiveMass(Grid))
        => /\ (args.colormode = "mean-means" /\ MeansDiffer(Grid)) =>
                /\ outcome.status = "ok"
                /\ \A c \in Cells(Grid) :
                      /\ IsLeastMean(Grid, c) => outcome.interpolants[c[1]][c[2]] = Zero
                      /\ IsGreatestMean(Grid, c) => outcome.interpolants[c[1]][c[2]] = One
                      /\ \A lo, hi \in Cells(Grid) :
                            (IsLeastMean(Grid, lo) /\ IsGreatestMean(Grid, hi)) =>
                                outcome.interpolants[c[1]][c[2]] =
                                    RatDiv(RatSub(MeanX(Grid[c[1]][c[2]]),
                                                  MeanX(Grid[lo[1]][lo[2]])),
                                           RatSub(MeanX(Grid[hi[1]][hi[2]]),
                                                  MeanX(Grid[lo[1]][lo[2]])))
           /\ (args.colormode = "mean-minmax" /\ RatLt(ctx.x_min, ctx.x_max)) =>
                /\ outcome.status = "ok"
                /\ \A c \in Cells(Grid) :
                      outcome.interpolants[c[1]][c[2]] =
                          RatDiv(RatSub(MeanX(Grid[c[1]][c[2]]), ctx.x_min),
                                 RatSub(ctx.x_max, ctx.x_min))

\* A grid whose least mean lies above x_min: its trace gets 0 all the same.
C10_Witness ==
    /\ pc = "done"
    /\ args.colormode = "mean-means"
    /\ AllPositiveMass(Grid)
    /\ outcome.status = "ok"
    /\ \E lo, hi \in Cells(Grid) :
          /\ IsLeastMean(Grid, lo) /\ IsGreatestMean(Grid, hi)
          /\ RatLt(ctx.x_min, MeanX(Grid[lo[1]][lo[2]]))
          /\ outcome.interpolants[lo[1]][lo[2]] = Zero
          /\ outcome.interpolants[hi[1]][hi[2]] = One

=============================================================================
